---- MODULE Spec2Model ----
(***************************************************************************)
(* A model of src/objects.py: Task, Project and DataBase, their mutation   *)
(* rules (complete, defer, add_task, add_project) and the JSON save/load.  *)
(*                                                                         *)
(* Python objects live in two heaps (tasks, projects); an object's         *)
(* identity is its index in the heap.  Values that can have more than one  *)
(* Python type carry their type in the field k: a date is a datetime or    *)
(* its formatted str or None, a status is a Status member or a str, an     *)
(* element of a task list is a Task object or a raw id str.                *)
(***************************************************************************)
EXTENDS Integers, Sequences, FiniteSets, TLC

(* ---------------- bounds of the model ---------------- *)
MaxTasks == 2      \* task objects alive in a run of Spec
MaxChain == 2      \* task objects alive in a run of SpecTask
MaxProjects == 1   \* projects the caller constructs, besides the Inbox
MaxDbTasks == 2    \* length of db.tasks
MaxProjTasks == 2  \* length of a project's task list
MaxClock == 2      \* readings of the clock that differ
MaxDue == 2        \* latest due date a caller gives

VARIABLES heap, projs, db, files, now, result
vars == <<heap, projs, db, files, now, result>>

(* ---------------- Python values ---------------- *)
None == [k |-> "None", v |-> 0]
Dt(n) == [k |-> "datetime", v |-> n]
Str(n) == [k |-> "str", v |-> n]
TaskRef(i) == [k |-> "Task", v |-> i]
IdStr(i) == [k |-> "str", v |-> i]
NoRepeat == [k |-> "None", interval |-> 0, end_date |-> None]
Repeat(i, e) == [k |-> "dict", interval |-> i, end_date |-> e]

\* class Status(Enum): a member, as opposed to the str that is its value
Status(s) == [k |-> "Status", v |-> s]
StatusValue(s) == [k |-> "str", v |-> s]

\* time_to_str: strftime to a text; the result is a str, no longer a datetime
time_to_str(dt) == Str(dt.v)

\* convert_to_str: datetime -> text, str -> itself, anything else raises
convert_to_str(obj) ==
  IF obj.k = "datetime" THEN time_to_str(obj)
  ELSE IF obj.k = "str" THEN obj
  ELSE [k |-> "ValueError", v |-> 0]

\* datetime.now(): each operation that reads the clock reads a later time,
\* until the model's last reading
Tick == IF now < MaxClock THEN now + 1 ELSE now

(* ---------------- Task ---------------- *)
\* Task.__init__ with the defaults of its signature; a is the keyword record,
\* with id 0, None dates and an empty list standing for arguments not given
TaskInit(a, fresh, tm) ==
  [id |-> IF a.id # 0 THEN a.id ELSE fresh,
   title |-> a.title,
   notes |-> a.notes,
   due_date |-> a.due_date,
   completed |-> a.completed,
   status |-> a.status,
   urgent |-> a.urgent,
   repeat_behavior |-> a.repeat_behavior,
   dependencies |-> a.dependencies,
   created_at |-> IF a.created_at.k # "None" THEN a.created_at ELSE Dt(tm),
   updated_at |-> IF a.updated_at.k # "None" THEN a.updated_at ELSE Dt(tm)]

\* the keyword record of a call that gives only the listed arguments
TaskArgs(title, notes, due, urgent, rb, deps) ==
  [id |-> 0, title |-> title, notes |-> notes, due_date |-> due,
   completed |-> FALSE, status |-> Status("ACTIVE"), urgent |-> urgent,
   repeat_behavior |-> rb, dependencies |-> deps,
   created_at |-> None, updated_at |-> None]

\* an all() that takes every dependency for completed
AllCompleted_Vacuous(h, deps) == "True"

\* all(dep.completed for dep in deps): stops at the first incomplete task;
\* a dependency that is a raw id has no attribute completed
RECURSIVE AllCompleted(_, _)
AllCompleted(h, deps) ==
  IF deps = <<>> THEN "True"
  ELSE IF Head(deps).k # "Task" THEN "AttributeError"
  ELSE IF ~h[Head(deps).v].completed THEN "False"
  ELSE AllCompleted(h, Tail(deps))

\* any(not dep.completed for dep in deps): stops at the first incomplete task
RECURSIVE AnyIncomplete(_, _)
AnyIncomplete(h, deps) ==
  IF deps = <<>> THEN "False"
  ELSE IF Head(deps).k # "Task" THEN "AttributeError"
  ELSE IF ~h[Head(deps).v].completed THEN "True"
  ELSE AnyIncomplete(h, Tail(deps))

\* a complete() that does not look at the dependencies
CompleteGuard_Unchecked(h, self) == "ok"

\* the guard of complete(): "ok", or the exception it raises
CompleteGuard(h, self) ==
  IF self.dependencies = <<>> THEN "ok"
  ELSE LET a == AllCompleted(h, self.dependencies)
       IN IF a = "AttributeError" THEN "AttributeError"
          ELSE IF a = "False" THEN "ValueError"
          ELSE "ok"

\* the three assignments of a successful complete()
MarkCompleted(self, tm) ==
  [self EXCEPT !.completed = TRUE, !.status = Status("COMPLETED"),
               !.updated_at = Dt(tm)]

\* a successor due on the day of its predecessor
NextDueDate_SameDay(self) == self.due_date

\* next_due_date = due_date + interval if due_date else None
NextDueDate(self) ==
  IF self.due_date.k = "None" THEN None
  ELSE IF self.due_date.k = "datetime"
       THEN Dt(self.due_date.v + self.repeat_behavior.interval)
  ELSE [k |-> "TypeError", v |-> 0]

\* a recurrence that ignores the end date
RecurrenceApplies_Open(self, next) == "True"

\* a recurrence that stops one occurrence early: < in place of <=
RecurrenceApplies_Strict(self, next) ==
  IF self.repeat_behavior.end_date.k = "None" THEN "True"
  ELSE IF next.k # "datetime" THEN "TypeError"
  ELSE IF next.v < self.repeat_behavior.end_date.v THEN "True"
  ELSE "False"

\* not end_date or next_due_date <= end_date: "True", "False" or "TypeError"
RecurrenceApplies(self, next) ==
  IF self.repeat_behavior.end_date.k = "None" THEN "True"
  ELSE IF next.k # "datetime" THEN "TypeError"
  ELSE IF next.v <= self.repeat_behavior.end_date.v THEN "True"
  ELSE "False"

\* the Task(...) that complete() returns on recurrence
Successor(self, next, fresh, tm) ==
  TaskInit(TaskArgs(self.title, self.notes, next, self.urgent,
                    self.repeat_behavior, <<>>), fresh, tm)

\* Task.complete(): the heap after the call, its outcome ("ok" or the
\* exception raised) and the heap index of the returned task (0 for None)
complete(h, t, fresh, tm) ==
  LET self == h[t]
      g == CompleteGuard(h, self)
      h1 == [h EXCEPT ![t] = MarkCompleted(self, tm)]
      next == NextDueDate(self)
      ra == RecurrenceApplies(self, next)
  IN IF g # "ok" THEN [heap |-> h, outcome |-> g, ret |-> 0]
     ELSE IF self.repeat_behavior.k = "None"
          THEN [heap |-> h1, outcome |-> "ok", ret |-> 0]
     ELSE IF next.k = "TypeError" \/ ra = "TypeError"
          THEN [heap |-> h1, outcome |-> "TypeError", ret |-> 0]
     ELSE IF ra = "True"
          THEN [heap |-> Append(h1, Successor(self, next, fresh, tm)),
                outcome |-> "ok", ret |-> Len(h) + 1]
     ELSE [heap |-> h1, outcome |-> "ok", ret |-> 0]

\* the status defer() assigns
DeferStatus(h, self) ==
  IF AnyIncomplete(h, self.dependencies) = "True" THEN Status("DEFERRED")
  ELSE Status("ACTIVE")

\* a defer() that reopens the task
defer_Reopening(h, t, tm) ==
  [heap |-> [h EXCEPT ![t] = [h[t] EXCEPT !.completed = FALSE,
                                          !.status = Status("ACTIVE"),
                                          !.updated_at = Dt(tm)]],
   outcome |-> "ok"]

\* Task.defer()
defer(h, t, tm) ==
  LET self == h[t]
  IN IF AnyIncomplete(h, self.dependencies) = "AttributeError"
     THEN [heap |-> h, outcome |-> "AttributeError"]
     ELSE [heap |-> [h EXCEPT ![t] = [self EXCEPT !.status = DeferStatus(h, self),
                                                  !.updated_at = Dt(tm)]],
           outcome |-> "ok"]

\* Task.to_dict(): the flat record (k = "dict"), or the exception raised
\* while building it: status.value of a str, dep.id of a raw id
TaskToDict(h, self) ==
  IF self.status.k # "Status" THEN [k |-> "AttributeError", d |-> self]
  ELSE IF \E i \in 1..Len(self.dependencies) : self.dependencies[i].k # "Task"
       THEN [k |-> "AttributeError", d |-> self]
  ELSE [k |-> "dict",
        d |-> [id |-> self.id,
               title |-> self.title,
               notes |-> self.notes,
               due_date |-> IF self.due_date.k = "None" THEN None
                            ELSE convert_to_str(self.due_date),
               completed |-> self.completed,
               status |-> StatusValue(self.status.v),
               urgent |-> self.urgent,
               repeat_behavior |-> self.repeat_behavior,
               dependencies |-> [i \in 1..Len(self.dependencies) |->
                                   IdStr(h[self.dependencies[i].v].id)],
               created_at |-> convert_to_str(self.created_at),
               updated_at |-> convert_to_str(self.updated_at)]]

(* ---------------- Project ---------------- *)
\* Project.__init__
ProjectInit(a, fresh, tm) ==
  [id |-> IF a.id # 0 THEN a.id ELSE fresh,
   title |-> a.title,
   description |-> a.description,
   tasks |-> a.tasks,
   completed |-> a.completed,
   created_at |-> IF a.created_at.k # "None" THEN a.created_at ELSE Dt(tm),
   updated_at |-> IF a.updated_at.k # "None" THEN a.updated_at ELSE Dt(tm)]

ProjectArgs(title, description, tasks, completed) ==
  [id |-> 0, title |-> title, description |-> description, tasks |-> tasks,
   completed |-> completed, created_at |-> None, updated_at |-> None]

\* Project.add_task
ProjectAddTask(self, task, tm) ==
  [self EXCEPT !.tasks = Append(@, task), !.updated_at = Dt(tm)]

\* a Project.complete() that does not look at the tasks
ProjectComplete_Always(h, self) == "ok"

\* Project.complete(): "ok" or the exception raised; nothing is assigned
ProjectComplete(h, self) ==
  LET a == AllCompleted(h, self.tasks)
  IN IF a = "True" THEN "ok"
     ELSE IF a = "False" THEN "ValueError"
     ELSE "AttributeError"

\* Project.to_dict()
ProjectToDict(h, self) ==
  IF \E i \in 1..Len(self.tasks) : self.tasks[i].k # "Task"
  THEN [k |-> "AttributeError", d |-> self]
  ELSE [k |-> "dict",
        d |-> [id |-> self.id,
               title |-> self.title,
               description |-> self.description,
               tasks |-> [i \in 1..Len(self.tasks) |-> IdStr(h[self.tasks[i].v].id)],
               completed |-> self.completed,
               created_at |-> convert_to_str(self.created_at),
               updated_at |-> convert_to_str(self.updated_at)]]

(* ---------------- DataBase ---------------- *)
NoTitle == "None"
InboxTitle == "Inbox"

\* DataBase.find_project_by_title: the first project of db.projects with the
\* title (its heap index), 0 for None
find_project_by_title(d, ps, title) ==
  LET hits == {i \in 1..Len(d.projects) : ps[d.projects[i]].title = title}
  IN IF hits = {} THEN 0
     ELSE d.projects[CHOOSE i \in hits : \A j \in hits : i <= j]

\* an add_task that ignores the project title
TargetProject_InboxOnly(d, ps, project_title) == d.inbox

\* the project add_task routes the task to
TargetProject(d, ps, project_title) ==
  IF project_title # NoTitle
  THEN LET project == find_project_by_title(d, ps, project_title)
       IN IF project # 0 THEN project ELSE d.inbox
  ELSE d.inbox

\* DataBase.add_task: the database and the project heap after the call
add_task(d, ps, t, project_title, tm) ==
  LET target == TargetProject(d, ps, project_title)
  IN [db |-> [d EXCEPT !.tasks = Append(@, t)],
      projs |-> [ps EXCEPT ![target] = ProjectAddTask(@, TaskRef(t), tm)]]

\* a duplicate test that looks at the first project only
TitleTaken_FirstOnly(d, ps, title) == ps[d.projects[1]].title = title

\* the duplicate-title test of add_project
TitleTaken(d, ps, title) ==
  \E i \in 1..Len(d.projects) : ps[d.projects[i]].title = title

\* an add_project without the duplicate test
add_project_Unchecked(d, ps, p) ==
  [db |-> [d EXCEPT !.projects = Append(@, p)], outcome |-> "ok"]

\* DataBase.add_project
add_project(d, ps, p) ==
  IF TitleTaken(d, ps, ps[p].title)
  THEN [db |-> d, outcome |-> "ValueError"]
  ELSE [db |-> [d EXCEPT !.projects = Append(@, p)], outcome |-> "ok"]

\* [t.to_dict() for t in db.tasks] / [p.to_dict() for p in db.projects]
TaskDicts(d, h) == [i \in 1..Len(d.tasks) |-> TaskToDict(h, h[d.tasks[i]])]
ProjectDicts(d, h, ps) ==
  [i \in 1..Len(d.projects) |-> ProjectToDict(h, ps[d.projects[i]])]
Payload(dicts) == [i \in 1..Len(dicts) |-> dicts[i].d]

\* json.dump has no encoding for the timedelta of a repeat rule
JsonEncodable(dicts) ==
  \A i \in 1..Len(dicts) : dicts[i].d.repeat_behavior.k = "None"

Missing == [k |-> "missing", v |-> <<>>]
Malformed == [k |-> "malformed", v |-> <<>>]
Json(list) == [k |-> "json", v |-> list]

\* DataBase.save: the files after the call and its outcome.  io names the
\* step the file system refuses, if any: "mkdir", "tasks" (open tasks.json),
\* "projects" (open projects.json) or "ok".  Only IOError is caught; an
\* exception raised after a file was opened for writing leaves it cut short.
save(d, h, ps, fs, io) ==
  LET td == TaskDicts(d, h)
      pd == ProjectDicts(d, h, ps)
  IN IF io = "mkdir" THEN [files |-> fs, outcome |-> "OSError"]
     ELSE IF io = "tasks" THEN [files |-> fs, outcome |-> "ok"]
     ELSE IF \E i \in 1..Len(td) : td[i].k # "dict"
          THEN [files |-> [fs EXCEPT !.tasks = Malformed], outcome |-> "AttributeError"]
     ELSE IF ~JsonEncodable(td)
          THEN [files |-> [fs EXCEPT !.tasks = Malformed], outcome |-> "TypeError"]
     ELSE LET f1 == [fs EXCEPT !.tasks = Json(Payload(td))]
          IN IF io = "projects" THEN [files |-> f1, outcome |-> "ok"]
             ELSE IF \E i \in 1..Len(pd) : pd[i].k # "dict"
                  THEN [files |-> [f1 EXCEPT !.projects = Malformed],
                        outcome |-> "AttributeError"]
             ELSE [files |-> [f1 EXCEPT !.projects = Json(Payload(pd))],
                   outcome |-> "ok"]

\* the first loop of load: self.add_task(Task(**task)) for each record
RECURSIVE LoadTasks(_, _, _)
LoadTasks(st, list, tm) ==
  IF list = <<>> THEN st
  ELSE LET h1 == Append(st.heap, TaskInit(Head(list), 0, tm))
           r == add_task(st.db, st.projs, Len(h1), NoTitle, tm)
       IN LoadTasks([db |-> r.db, heap |-> h1, projs |-> r.projs], Tail(list), tm)

\* the second loop of load: self.add_project(Project(**project)) for each
\* record; the ValueError of add_project ends the loop and leaves load
RECURSIVE LoadProjects(_, _, _)
LoadProjects(st, list, tm) ==
  IF list = <<>> THEN [db |-> st.db, heap |-> st.heap, projs |-> st.projs,
                       outcome |-> "ok"]
  ELSE LET ps1 == Append(st.projs, ProjectInit(Head(list), 0, tm))
           r == add_project(st.db, ps1, Len(ps1))
       IN IF r.outcome # "ok"
          THEN [db |-> st.db, heap |-> st.heap, projs |-> st.projs,
                outcome |-> r.outcome]
          ELSE LoadProjects([db |-> r.db, heap |-> st.heap, projs |-> ps1],
                            Tail(list), tm)

\* DataBase.load: a missing or malformed file is reported and skipped
load(d, h, ps, fs, tm) ==
  LET st0 == [db |-> d, heap |-> h, projs |-> ps]
      st1 == IF fs.tasks.k = "json" THEN LoadTasks(st0, fs.tasks.v, tm) ELSE st0
  IN IF fs.projects.k = "json" THEN LoadProjects(st1, fs.projects.v, tm)
     ELSE [db |-> st1.db, heap |-> st1.heap, projs |-> st1.projs, outcome |-> "ok"]

\* str(uuid.uuid4()): an id that no object and no file holds or names.  Ids
\* are only ever compared with ids of the same kind of object, so a fresh id
\* is the first one unused among the ids of that kind.
RefIds(list) == {list[j].v : j \in {n \in 1..Len(list) : list[n].k = "str"}}

TaskIds(h, ps, fs) ==
  {h[i].id : i \in 1..Len(h)}
    \cup UNION {RefIds(h[i].dependencies) : i \in 1..Len(h)}
    \cup UNION {RefIds(ps[i].tasks) : i \in 1..Len(ps)}
    \cup {fs.tasks.v[i].id : i \in 1..Len(fs.tasks.v)}
    \cup UNION {RefIds(fs.tasks.v[i].dependencies) : i \in 1..Len(fs.tasks.v)}
    \cup UNION {RefIds(fs.projects.v[i].tasks) : i \in 1..Len(fs.projects.v)}

ProjectIds(ps, fs) ==
  {ps[i].id : i \in 1..Len(ps)}
    \cup {fs.projects.v[i].id : i \in 1..Len(fs.projects.v)}

FirstUnused(used) ==
  CHOOSE n \in 1..(Cardinality(used) + 1) :
    n \notin used /\ \A m \in 1..(n - 1) : m \in used

uuid4Task(h, ps, fs) == FirstUnused(TaskIds(h, ps, fs))

uuid4Project(ps, fs) == FirstUnused(ProjectIds(ps, fs))

(* ---------------- inputs ---------------- *)
EndDate == MaxDue + 1
NoNotes == "None"
Plain == [title |-> "a", notes |-> NoNotes, urgent |-> FALSE]
Marked == [title |-> "b", notes |-> "n", urgent |-> TRUE]
Dues == {None} \cup {Dt(n) : n \in 1..MaxDue}
Forever == Repeat(2, None)
Until == Repeat(1, Dt(EndDate))
Singles == {<<>>} \cup {<<TaskRef(i)>> : i \in 1..Len(heap)}
Pairs == {<<TaskRef(x[1]), TaskRef(x[2])>> :
            x \in {y \in (1..Len(heap)) \X (1..Len(heap)) : y[1] # y[2]}}
TaskInput(pr, due, rb, deps) == [pr |-> pr, due |-> due, rb |-> rb, deps |-> deps]
\* the tasks the callers construct.  Spec and SpecStore: plain tasks, with a
\* dependency or none
PlainInputs ==
  {TaskInput(Plain, None, NoRepeat, deps) : deps \in Singles}
\* SpecTask: plain tasks with dependencies, and marked tasks with every due
\* date under each repeat rule
TaskInputs ==
  {TaskInput(Plain, due, NoRepeat, deps) : due \in {None, Dt(1)}, deps \in Singles}
    \cup {TaskInput(Marked, due, rb, <<>>) : due \in Dues, rb \in {Forever, Until}}
\* SpecMem: plain tasks with up to two dependencies, and a marked task that recurs
MemInputs ==
  {TaskInput(Plain, None, NoRepeat, deps) : deps \in Singles \cup Pairs}
    \cup {TaskInput(Marked, Dt(1), Forever, <<>>)}
ProjectTitles == {InboxTitle, "Work"}
TaskLists == {<<>>} \cup {<<TaskRef(i)>> : i \in 1..Len(heap)}

\* what the caller sees of its last call: the operation, the object it was
\* called on or given, the title argument of add_task, "ok" or the exception
\* raised, and the heap index of a returned task (0 for None)
Result(op, self, outcome, ret) ==
  [op |-> op, self |-> self, arg |-> NoTitle, outcome |-> outcome, ret |-> ret]

\* DataBase.__init__: the Inbox project, appended to the project heap ps
DataBaseInit(ps, fresh, tm) ==
  [projs |-> Append(ps, ProjectInit(ProjectArgs(InboxTitle, "Default project",
                                                <<>>, FALSE), fresh, tm)),
   db |-> [tasks |-> <<>>, projects |-> <<Len(ps) + 1>>, inbox |-> Len(ps) + 1]]

(* ---------------- the state machine ---------------- *)
\* db = DataBase() in a process that holds no other object and has no files
Init ==
  /\ heap = <<>>
  /\ projs = DataBaseInit(<<>>, 1, 0).projs
  /\ db = DataBaseInit(<<>>, 1, 0).db
  /\ files = [tasks |-> Missing, projects |-> Missing]
  /\ now = 0
  /\ result = Result("DataBase", 0, "ok", 0)

\* db = DataBase() again (a new run of the program): the caller keeps no
\* object of the old database; the files stay
NewDataBase ==
  LET r == DataBaseInit(<<>>, uuid4Project(<<>>, files), Tick)
  IN /\ heap' = <<>>
     /\ projs' = r.projs
     /\ db' = r.db
     /\ now' = Tick
     /\ result' = Result("DataBase", 0, "ok", 0)
     /\ UNCHANGED files

\* Task(title, notes, due_date, urgent, repeat_behavior, dependencies)
CreateTask(in, cap) ==
  /\ Len(heap) < cap
  /\ heap' = Append(heap, TaskInit(TaskArgs(in.pr.title, in.pr.notes, in.due,
                                            in.pr.urgent, in.rb, in.deps),
                                   uuid4Task(heap, projs, files), Tick))
  /\ now' = Tick
  /\ result' = Result("Task", Len(heap) + 1, "ok", 0)
  /\ UNCHANGED <<projs, db, files>>

\* a complete() that puts the successor it returns into db.tasks
CompleteCall_Inserting(t, cap) ==
  LET r == complete(heap, t, uuid4Task(heap, projs, files), Tick)
  IN /\ Len(r.heap) <= cap
     /\ heap' = r.heap
     /\ now' = IF r.outcome \in {"ok", "TypeError"} THEN Tick ELSE now
     /\ result' = Result("complete", t, r.outcome, r.ret)
     /\ db' = IF r.ret # 0 THEN [db EXCEPT !.tasks = Append(@, r.ret)] ELSE db
     /\ UNCHANGED <<projs, files>>

\* t.complete(); a returned successor takes a place in the heap
CompleteCall(t, cap) ==
  LET r == complete(heap, t, uuid4Task(heap, projs, files), Tick)
  IN /\ Len(r.heap) <= cap
     /\ heap' = r.heap
     /\ now' = IF r.outcome \in {"ok", "TypeError"} THEN Tick ELSE now
     /\ result' = Result("complete", t, r.outcome, r.ret)
     /\ UNCHANGED <<projs, db, files>>

\* t.defer()
Defer(t) ==
  LET r == defer(heap, t, Tick)
  IN /\ heap' = r.heap
     /\ now' = IF r.outcome = "ok" THEN Tick ELSE now
     /\ result' = Result("defer", t, r.outcome, 0)
     /\ UNCHANGED <<projs, db, files>>

NewTask == \E in \in PlainInputs : CreateTask(in, MaxTasks)

Complete(t) == CompleteCall(t, MaxTasks)

\* Project(title, tasks=tasks)
CreateProject(title, tasks) ==
  /\ Len(projs) < MaxProjects + 1
  /\ projs' = Append(projs, ProjectInit(ProjectArgs(title, NoNotes, tasks, FALSE),
                                        uuid4Project(projs, files), Tick))
  /\ now' = Tick
  /\ result' = Result("Project", Len(projs) + 1, "ok", 0)
  /\ UNCHANGED <<heap, db, files>>

NewProject == \E title \in ProjectTitles : CreateProject(title, <<>>)

\* p.add_task(t), on any project the caller holds
PAddTask(p, t) ==
  /\ Len(projs[p].tasks) < MaxProjTasks
  /\ projs' = [projs EXCEPT ![p] = ProjectAddTask(@, TaskRef(t), Tick)]
  /\ now' = Tick
  /\ result' = Result("Project.add_task", p, "ok", 0)
  /\ UNCHANGED <<heap, db, files>>

\* p.complete()
PComplete(p) ==
  /\ result' = Result("Project.complete", p, ProjectComplete(heap, projs[p]), 0)
  /\ UNCHANGED <<heap, projs, db, files, now>>

\* db.add_task(t, project_title)
AddTask(t, title) ==
  /\ Len(db.tasks) < MaxDbTasks
  /\ Len(projs[TargetProject(db, projs, title)].tasks) < MaxProjTasks
  /\ LET r == add_task(db, projs, t, title, Tick)
     IN /\ db' = r.db
        /\ projs' = r.projs
  /\ now' = Tick
  /\ result' = [Result("add_task", t, "ok", 0) EXCEPT !.arg = title]
  /\ UNCHANGED <<heap, files>>

\* db.add_project(p)
AddProject(p) ==
  LET r == add_project(db, projs, p)
  IN /\ db' = r.db
     /\ result' = Result("add_project", p, r.outcome, 0)
     /\ UNCHANGED <<heap, projs, files, now>>

\* db.save()
Save(io) ==
  LET r == save(db, heap, projs, files, io)
  IN /\ files' = r.files
     /\ result' = Result("save", 0, r.outcome, 0)
     /\ UNCHANGED <<heap, projs, db, now>>

\* db.load(), within the room the bounds leave for the loaded objects
Load ==
  /\ Len(heap) + Len(files.tasks.v) <= MaxTasks
  /\ Len(db.tasks) + Len(files.tasks.v) <= MaxDbTasks
  /\ Len(projs[db.inbox].tasks) + Len(files.tasks.v) <= MaxProjTasks
  /\ LET r == load(db, heap, projs, files, Tick)
     IN /\ heap' = r.heap
        /\ projs' = r.projs
        /\ db' = r.db
        /\ now' = IF r.heap # heap THEN Tick ELSE now
        /\ result' = Result("load", 0, r.outcome, 0)
  /\ UNCHANGED files

\* the database as its own callers use it: tasks and projects are made, added
\* through the database, saved and loaded
Next ==
  \/ NewTask
  \/ NewProject
  \/ \E t \in 1..Len(heap), title \in {NoTitle} \cup ProjectTitles : AddTask(t, title)
  \/ \E p \in 1..Len(projs) : AddProject(p)
  \/ Save("ok")
  \/ Load

Spec == Init /\ [][Next]_vars

\* tasks alone: construction, complete and defer, with every due date and rule
TaskNew == \E in \in TaskInputs : CreateTask(in, MaxChain)

TaskComplete(t) == CompleteCall(t, MaxChain)

TaskNext ==
  \/ TaskNew
  \/ \E t \in 1..Len(heap) : TaskComplete(t)
  \/ \E t \in 1..Len(heap) : Defer(t)

SpecTask == Init /\ [][TaskNext]_vars

\* everything a caller can do in memory, the direct use of Project included
MemNewTask == \E in \in MemInputs : CreateTask(in, MaxTasks)

MemNewProject ==
  \E title \in ProjectTitles, tasks \in TaskLists : CreateProject(title, tasks)

MemNext ==
  \/ MemNewTask
  \/ MemNewProject
  \/ \E t \in 1..Len(heap) : Complete(t)
  \/ \E t \in 1..Len(heap) : Defer(t)
  \/ \E p \in 1..Len(projs), t \in 1..Len(heap) : PAddTask(p, t)
  \/ \E p \in 1..Len(projs) : PComplete(p)
  \/ \E t \in 1..Len(heap), title \in {NoTitle} \cup ProjectTitles : AddTask(t, title)
  \/ \E p \in 1..Len(projs) : AddProject(p)

SpecMem == Init /\ [][MemNext]_vars

\* a database saved by one run of the program and loaded by the next
StoreNext ==
  \/ NewDataBase
  \/ NewTask
  \/ \E t \in 1..Len(heap) : Defer(t)
  \/ \E t \in 1..Len(heap) : AddTask(t, NoTitle)
  \/ Save("ok")
  \/ Load

SpecStore == Init /\ [][StoreNext]_vars

\* Project(title, tasks=tasks, completed=completed)
ConstructProject(title, tasks, completed) ==
  /\ Len(projs) < MaxProjects + 1
  /\ projs' = Append(projs, ProjectInit(ProjectArgs(title, NoNotes, tasks, completed),
                                        uuid4Project(projs, files), Tick))
  /\ now' = Tick
  /\ result' = Result("Project", Len(projs) + 1, "ok", 0)
  /\ UNCHANGED <<heap, db, files>>

\* projects used directly: tasks without dependencies, projects constructed
\* with any task list and completed flag, filled and completed by the caller
ProjectNewTask == CreateTask(TaskInput(Plain, None, NoRepeat, <<>>), MaxTasks)

ProjectNew ==
  \E tasks \in TaskLists, completed \in BOOLEAN :
    ConstructProject("Work", tasks, completed)

ProjectNext ==
  \/ ProjectNewTask
  \/ ProjectNew
  \/ \E t \in 1..Len(heap) : Complete(t)
  \/ \E p \in 1..Len(projs), t \in 1..Len(heap) : PAddTask(p, t)
  \/ \E p \in 1..Len(projs) : PComplete(p)
  \/ \E t \in 1..Len(heap) : AddTask(t, NoTitle)

SpecProject == Init /\ [][ProjectNext]_vars

\* saving what a caller built, on a file system that may refuse a step
IoFaults == {"ok", "mkdir", "tasks", "projects"}

SaveInputs ==
  {TaskInput(Plain, None, NoRepeat, <<>>), TaskInput(Marked, Dt(1), Forever, <<>>)}

SaveNewTask == \E in \in SaveInputs : CreateTask(in, MaxTasks)

SaveNext ==
  \/ SaveNewTask
  \/ \E t \in 1..Len(heap) : AddTask(t, NoTitle)
  \/ \E io \in IoFaults : Save(io)

SpecSave == Init /\ [][SaveNext]_vars

\* the life of tasks in a database: made, added, completed, deferred, put in
\* projects and saved
LifeInputs == {TaskInput(Plain, None, NoRepeat, <<>>)}

LifeNewTask == \E in \in LifeInputs : CreateTask(in, MaxTasks)

LifeNewProject == CreateProject("Work", <<>>)

LifeNext ==
  \/ LifeNewTask
  \/ LifeNewProject
  \/ \E t \in 1..Len(heap) : Complete(t)
  \/ \E t \in 1..Len(heap) : Defer(t)
  \/ \E p \in 1..Len(projs), t \in 1..Len(heap) : PAddTask(p, t)
  \/ \E p \in 1..Len(projs) : PComplete(p)
  \/ \E t \in 1..Len(heap) : AddTask(t, NoTitle)
  \/ \E p \in 1..Len(projs) : AddProject(p)
  \/ Save("ok")

SpecLife == Init /\ [][LifeNext]_vars

\* a recurring task and its successors: the caller completes the task, then
\* the task that call returned, and so on for as long as one is returned
ChainRules == {Repeat(i, Dt(e)) : i \in 1..2, e \in {EndDate, EndDate + 1}}

\* the occurrences a chain of these rules can have
ChainCap == EndDate + 2

ChainStart ==
  /\ heap = <<>>
  /\ \E pr \in {Plain, Marked}, due \in 1..MaxDue, rb \in ChainRules :
       CreateTask(TaskInput(pr, Dt(due), rb, <<>>), ChainCap)

\* complete() on the latest task of the chain, not completed yet
ChainStep ==
  /\ heap # <<>>
  /\ ~heap[Len(heap)].completed
  /\ CompleteCall(Len(heap), ChainCap)

ChainNext ==
  \/ ChainStart
  \/ ChainStep
  \/ \E t \in 1..Len(heap) : Defer(t)

\* the caller goes on completing: a complete() that can be called is called
SpecChain == Init /\ [][ChainNext]_vars /\ WF_vars(ChainStep)

(* ======================= properties ======================= *)
Range(f) == {f[i] : i \in DOMAIN f}

\* t has a dependency that is a task whose completed flag is false
HasIncompleteDep(h, t) ==
  \E i \in 1..Len(h[t].dependencies) :
    /\ h[t].dependencies[i].k = "Task"
    /\ ~h[h[t].dependencies[i].v].completed

\* every dependency of t is a completed task
DepsAllCompleted(h, t) ==
  \A i \in 1..Len(h[t].dependencies) :
    /\ h[t].dependencies[i].k = "Task"
    /\ h[h[t].dependencies[i].v].completed

\* the step is a call of op on (or with) the object x
Called(op, x) == result'.op = op /\ result'.self = x

\* C1: complete() on a task with an incomplete dependency raises, returns no
\* successor and leaves the task (and every other task) as it was: completed,
\* status, updated_at and dependencies are unchanged.
C1_BlockedCompleteChangesNothing ==
  [][\A t \in 1..Len(heap) :
       (Called("complete", t) /\ HasIncompleteDep(heap, t))
         => /\ result'.outcome = "ValueError"
            /\ result'.ret = 0
            /\ heap' = heap]_vars

C1_Witness ==
  /\ result.op = "complete"
  /\ result.outcome = "ValueError"
  /\ HasIncompleteDep(heap, result.self)
  /\ ~heap[result.self].completed

\* C2: complete() on a task whose dependencies are all completed returns
\* without raising, whatever the due date and the repeat rule, and leaves the
\* task completed with status COMPLETED.
C2_CompleteNeverRaises ==
  [][\A t \in 1..Len(heap) :
       (Called("complete", t) /\ DepsAllCompleted(heap, t))
         => /\ result'.outcome = "ok"
            /\ heap'[t].completed
            /\ heap'[t].status = Status("COMPLETED")]_vars

\* C3: a task's completed flag is true exactly when its status is COMPLETED.
C3_CompletedIffStatus ==
  \A t \in 1..Len(heap) :
    heap[t].completed <=> heap[t].status = Status("COMPLETED")

\* C5: a successful complete() of a task with due date D and a repeat rule of
\* interval I without end date returns a new task: due D + I, no
\* dependencies, an id no existing task has, ACTIVE and not completed, with
\* the title, notes, urgent flag and repeat rule of the completed task.
C5_SuccessorOfOpenRule ==
  [][\A t \in 1..Len(heap) :
       ( /\ Called("complete", t)
         /\ result'.outcome = "ok"
         /\ heap[t].repeat_behavior.k = "dict"
         /\ heap[t].repeat_behavior.end_date.k = "None"
         /\ heap[t].due_date.k = "datetime" )
         => /\ result'.ret = Len(heap) + 1
            /\ Len(heap') = Len(heap) + 1
            /\ LET s == heap'[result'.ret]
               IN /\ s.due_date = Dt(heap[t].due_date.v + heap[t].repeat_behavior.interval)
                  /\ s.dependencies = <<>>
                  /\ \A u \in 1..Len(heap) : s.id # heap[u].id
                  /\ s.status = Status("ACTIVE")
                  /\ ~s.completed
                  /\ s.title = heap[t].title
                  /\ s.notes = heap[t].notes
                  /\ s.urgent = heap[t].urgent
                  /\ s.repeat_behavior = heap[t].repeat_behavior]_vars

C5_Witness ==
  /\ result.op = "complete"
  /\ result.outcome = "ok"
  /\ result.ret # 0
  /\ heap[result.self].repeat_behavior = Forever
  /\ heap[result.self].due_date.k = "datetime"
  /\ heap[result.self].urgent
  /\ heap[result.ret].due_date.k = "datetime"

\* C6: a successful complete() returns a successor exactly when the task has
\* a repeat rule and the rule has no end date or due date + interval is not
\* later than the end date.
C6_SuccessorIffRuleApplies ==
  [][\A t \in 1..Len(heap) :
       (Called("complete", t) /\ result'.outcome = "ok")
         => ( result'.ret # 0
                <=> /\ heap[t].repeat_behavior.k = "dict"
                    /\ \/ heap[t].repeat_behavior.end_date.k = "None"
                       \/ /\ heap[t].due_date.k = "datetime"
                          /\ heap[t].due_date.v + heap[t].repeat_behavior.interval
                               <= heap[t].repeat_behavior.end_date.v )]_vars

\* the boundary: the successor is due exactly at the end date
C6_Witness ==
  /\ result.op = "complete"
  /\ result.outcome = "ok"
  /\ result.ret # 0
  /\ heap[result.self].repeat_behavior = Until
  /\ heap[result.ret].due_date = Until.end_date

\* C4: defer() never raises; it leaves the status DEFERRED exactly when a
\* dependency is not completed and ACTIVE otherwise, whatever the status was,
\* and changes neither the completed flag nor the dependencies.
C4_DeferNeverRaises ==
  [][\A t \in 1..Len(heap) :
       Called("defer", t)
         => /\ result'.outcome = "ok"
            /\ heap'[t].status =
                 (IF DepsAllCompleted(heap, t)
                  THEN Status("ACTIVE") ELSE Status("DEFERRED"))
            /\ heap'[t].completed = heap[t].completed
            /\ heap'[t].dependencies = heap[t].dependencies]_vars

\* the projects of the database that have the title
Titled(title) == {q \in Range(db.projects) : projs[q].title = title}

\* C7: add_project(p) raises when a project of the database already has p's
\* title, and then the database is unchanged; otherwise it appends p.
C7_AddProjectRejectsDuplicate ==
  [][\A p \in 1..Len(projs) :
       Called("add_project", p)
         => IF Titled(projs[p].title) # {}
            THEN /\ result'.outcome = "ValueError"
                 /\ db' = db
                 /\ projs' = projs
            ELSE /\ result'.outcome = "ok"
                 /\ db'.projects = Append(db.projects, p)
                 /\ db'.tasks = db.tasks]_vars

\* a project that is not the Inbox was refused: its title was taken
C7_Witness ==
  /\ result.op = "add_project"
  /\ result.outcome = "ValueError"
  /\ projs[result.self].title # InboxTitle
  /\ Len(db.projects) = 2

\* C8: add_task(t, title) appends t once to db.tasks and once to the task
\* list of one project, the project of the database with that title if there
\* is one and the Inbox otherwise; no other task list changes.
C8_AddTaskRoutesOnce ==
  [][\A t \in 1..Len(heap) :
       Called("add_task", t)
         => /\ db'.tasks = Append(db.tasks, t)
            /\ db'.projects = db.projects
            /\ \E target \in (IF result'.arg # NoTitle /\ Titled(result'.arg) # {}
                              THEN Titled(result'.arg) ELSE {db.inbox}) :
                 /\ projs'[target].tasks = Append(projs[target].tasks, TaskRef(t))
                 /\ \A q \in (1..Len(projs)) \ {target} :
                      projs'[q].tasks = projs[q].tasks]_vars

\* a task went to a project other than the Inbox
C8_Witness ==
  /\ result.op = "add_task"
  /\ result.arg = "Work"
  /\ \E q \in Range(db.projects) :
       /\ q # db.inbox
       /\ projs[q].title = "Work"
       /\ TaskRef(result.self) \in Range(projs[q].tasks)

\* C9: the database has exactly one project titled "Inbox", the one made at
\* construction, and no two of its projects have the same title.
C9_OneInboxUniqueTitles ==
  /\ Titled(InboxTitle) = {db.inbox}
  /\ db.inbox = 1
  /\ \A i, j \in 1..Len(db.projects) :
       projs[db.projects[i]].title = projs[db.projects[j]].title => i = j

\* load met the saved projects of a database that has a second project
C9_Witness ==
  /\ result.op = "load"
  /\ files.projects.k = "json"
  /\ Len(files.projects.v) = 2
  /\ Len(db.projects) = 2

\* C10: every element of the task list of every project of the database is
\* a task that is in db.tasks.
C10_ProjectTasksInDatabase ==
  \A q \in Range(db.projects) :
    \A i \in 1..Len(projs[q].tasks) :
      /\ projs[q].tasks[i].k = "Task"
      /\ projs[q].tasks[i].v \in Range(db.tasks)

\* C11: every dependency of every task of db.tasks is a task (not an
\* unresolved id) that is itself in db.tasks.
C11_DependenciesInDatabase ==
  \A t \in Range(db.tasks) :
    \A i \in 1..Len(heap[t].dependencies) :
      /\ heap[t].dependencies[i].k = "Task"
      /\ heap[t].dependencies[i].v \in Range(db.tasks)

\* every element of the project's task list is a completed task
TasksAllCompleted(h, p) ==
  \A i \in 1..Len(p.tasks) :
    p.tasks[i].k = "Task" /\ h[p.tasks[i].v].completed

\* C12: Project.complete() succeeds exactly when every task of the project's
\* list is completed (an empty list included) and raises otherwise; either
\* way the task lists and every task's completed flag and status stay as
\* they were.
C12_ProjectCompleteIffAllCompleted ==
  [][\A p \in 1..Len(projs) :
       Called("Project.complete", p)
         => /\ result'.outcome = (IF TasksAllCompleted(heap, projs[p])
                                  THEN "ok" ELSE "ValueError")
            /\ projs' = projs
            /\ db' = db
            /\ \A t \in 1..Len(heap) :
                 /\ heap'[t].completed = heap[t].completed
                 /\ heap'[t].status = heap[t].status]_vars

\* a refusal that needed the whole list: the first task is completed, the
\* second is not
C12_Witness ==
  /\ result.op = "Project.complete"
  /\ result.outcome = "ValueError"
  /\ Len(projs[result.self].tasks) = 2
  /\ heap[projs[result.self].tasks[1].v].completed
  /\ ~heap[projs[result.self].tasks[2].v].completed

\* C13: a project whose completed flag is true holds only completed tasks.
C13_CompletedProjectHoldsCompleted ==
  \A p \in 1..Len(projs) :
    projs[p].completed => TasksAllCompleted(heap, projs[p])

\* C14: load into a DataBase that holds no task yet, from files a save wrote,
\* yields the saved tasks: as many, each with the id and title of its record
\* and with the Status member whose value the record holds.
C14_RoundTripKeepsIdTitleStatus ==
  [][(result'.op = "load" /\ db.tasks = <<>> /\ files.tasks.k = "json")
       => /\ Len(db'.tasks) = Len(files.tasks.v)
          /\ \A i \in 1..Len(files.tasks.v) :
               /\ heap'[db'.tasks[i]].id = files.tasks.v[i].id
               /\ heap'[db'.tasks[i]].title = files.tasks.v[i].title
               /\ heap'[db'.tasks[i]].status = Status(files.tasks.v[i].status.v)]_vars

\* C15: load returns normally whatever the two files are (missing, malformed
\* or written by a save), and the tasks of a readable tasks.json are in
\* db.tasks afterwards whatever happens to the projects.
C15_LoadNeverRaises ==
  [][result'.op = "load"
       => /\ result'.outcome = "ok"
          /\ files.tasks.k = "json"
               => Len(db'.tasks) = Len(db.tasks) + Len(files.tasks.v)]_vars

\* C16: save returns normally whichever step fails (making the directory,
\* turning a task or project into its record, writing either file), and
\* leaves the database, its tasks and its projects as they were.
C16_SaveNeverRaises ==
  [][result'.op = "save"
       => /\ result'.outcome = "ok"
          /\ heap' = heap
          /\ projs' = projs
          /\ db' = db]_vars

\* C17: complete() changes no task but the one it is called on and changes
\* neither db.tasks, db.projects nor any project's task list; the successor
\* it returns is in db.tasks and in a project's list only once added.
C17_CompleteTouchesOnlyItsTask ==
  [][\A t \in 1..Len(heap) :
       Called("complete", t)
         => /\ db' = db
            /\ \A q \in 1..Len(projs) : projs'[q].tasks = projs[q].tasks
            /\ Len(projs') = Len(projs)
            /\ \A u \in (1..Len(heap)) \ {t} : heap'[u] = heap[u]
            /\ result'.ret # 0
                 => /\ result'.ret \notin Range(db'.tasks)
                    /\ \A q \in 1..Len(projs') :
                         TaskRef(result'.ret) \notin Range(projs'[q].tasks)]_vars

\* a task of the database, in the Inbox, was completed and returned a successor
C17_Witness ==
  /\ result.op = "complete"
  /\ result.outcome = "ok"
  /\ result.ret # 0
  /\ result.self \in Range(db.tasks)
  /\ TaskRef(result.self) \in Range(projs[db.inbox].tasks)
  /\ result.ret \notin Range(db.tasks)

\* C18: a task whose completed flag is true keeps it true in every later
\* state.
C18_CompletedStaysCompleted ==
  [][\A t \in 1..Len(heap) :
       heap[t].completed => (t <= Len(heap') /\ heap'[t].completed)]_vars

\* a completed task went through a later defer() and a save()
C18_Witness ==
  /\ result.op = "save"
  /\ \E t \in 1..Len(heap) :
       /\ heap[t].completed
       /\ heap[t].status = Status("ACTIVE")

\* C19: with tasks made not completed and dependency lists fixed at
\* construction, under complete() and defer() every completed task has only
\* completed dependencies.
C19_CompletedAfterDependencies ==
  \A t \in 1..Len(heap) : heap[t].completed => DepsAllCompleted(heap, t)

\* a task with a dependency was completed, after a complete() on it was
\* refused or not
C19_Witness ==
  \E t \in 1..Len(heap) :
    /\ heap[t].completed
    /\ heap[t].dependencies # <<>>
    /\ result.op = "complete"
    /\ result.self = t

\* C20: for a recurring task with a due date, a positive interval and an end
\* date, completing the task and then each successor returned ends with a
\* complete() that returns None; every successor is due exactly one interval
\* after its predecessor and not later than the end date.
C20_ChainEnds ==
  /\ [][\A t \in 1..Len(heap) :
          (Called("complete", t) /\ result'.ret # 0)
            => /\ heap'[result'.ret].due_date
                    = Dt(heap[t].due_date.v + heap[t].repeat_behavior.interval)
               /\ heap'[result'.ret].due_date.v <= heap[t].repeat_behavior.end_date.v]_vars
  /\ (heap # <<>> /\ ~heap[Len(heap)].completed)
       ~> (result.op = "complete" /\ result.outcome = "ok" /\ result.ret = 0)

\* a chain of three occurrences ended
C20_Witness ==
  /\ result.op = "complete"
  /\ result.outcome = "ok"
  /\ result.ret = 0
  /\ Len(heap) >= 3
  /\ \A t \in 1..Len(heap) : heap[t].completed
====
